---- MODULE Spec2Model ----
(***************************************************************************)
(* Jobly data-access layer: models/job.js (Job) and models/company.js      *)
(* (Company).  The model covers the dynamic statement construction of      *)
(* findAll / update and the CRUD operations against the jobs and companies *)
(* tables.                                                                 *)
(*                                                                         *)
(* A statement is a sequence of fragments [col, t, n]: the text is         *)
(* col ++ t, followed by the decimal number n when n > 0 (a positional     *)
(* placeholder "$n").  A JavaScript value is a record [type, s, n].        *)
(***************************************************************************)
EXTENDS Integers, Sequences, FiniteSets, TLC

VARIABLES
  companies,          \* rows of table companies
  jobs,               \* rows of table jobs
  nextId,             \* next value of the jobs.id sequence
  pc,                 \* position of each in-flight Company.create call
  pending,            \* the data argument of each in-flight Company.create
  call,               \* the step last taken: [op, err]
  key,                \* the id / handle argument of the last call
  filters,            \* the searchFilters argument of the last findAll
  data,               \* the data argument of the last update
  whereExpressions,   \* local of findAll when it returned or threw
  queryValues,        \* local of findAll when it returned or threw
  dbQuery,            \* the composed (statement, values) handed to db.query
  ret                 \* the value the last call returned

vars == <<companies, jobs, nextId, pc, pending, call, key, filters, data,
          whereExpressions, queryValues, dbQuery, ret>>

-----------------------------------------------------------------------------
(* Bounds *)

MaxJobId == 2         \* the jobs.id sequence hands out 1..MaxJobId
MaxEmployees == 2     \* numeric filter bounds range over 0..MaxEmployees
MaxKeys == 2          \* an update mapping has at most MaxKeys keys

-----------------------------------------------------------------------------
(* JavaScript values *)

Undefined == [type |-> "undefined", s |-> "", n |-> 0]
Str(s) == [type |-> "string", s |-> s, n |-> 0]
Num(n) == [type |-> "number", s |-> "", n |-> n]
Bool(b) == [type |-> "boolean", s |-> "", n |-> IF b THEN 1 ELSE 0]

\* ToBoolean: undefined, "", 0 and false are falsy
Truthy(v) ==
  CASE v.type = "undefined" -> FALSE
    [] v.type = "string" -> v.s # ""
    [] v.type = "number" -> v.n # 0
    [] OTHER -> v.n = 1

\* a > b on numbers; undefined converts to NaN and every comparison with NaN
\* is false
JsGreater(a, b) ==
  IF a.type = "number" /\ b.type = "number" THEN a.n > b.n ELSE FALSE

\* the template literal `%${v}%`
Wildcard(v) == Str("%" \o v.s \o "%")

-----------------------------------------------------------------------------
(* Statement text *)

Frag(col, t, n) == [col |-> col, t |-> t, n |-> n]
Text(t) == Frag("", t, 0)

\* Array.prototype.join on arrays of fragment sequences
RECURSIVE Join(_, _)
Join(parts, sep) ==
  IF Len(parts) = 0 THEN <<>>
  ELSE IF Len(parts) = 1 THEN parts[1]
  ELSE parts[1] \o <<Text(sep)>> \o Join(Tail(parts), sep)

\* the placeholder numbers of a statement, in text order
Placeholders(sql) ==
  LET ph == SelectSeq(sql, LAMBDA f : f.n > 0)
  IN [i \in 1..Len(ph) |-> ph[i].n]

OneToN(k) == [i \in 1..k |-> i]

RECURSIVE IsSubseq(_, _)
IsSubseq(s, t) ==
  IF Len(s) = 0 THEN TRUE
  ELSE IF Len(t) = 0 THEN FALSE
  ELSE IF s[1] = t[1] THEN IsSubseq(Tail(s), Tail(t))
  ELSE IsSubseq(s, Tail(t))

-----------------------------------------------------------------------------
(* Job.findAll *)

JobBaseQuery ==
  <<Text("SELECT j.id, j.title, j.salary, j.equity, j.company_handle AS \"companyHandle\", c.name AS \"companyName\" FROM jobs j LEFT JOIN companies AS c ON c.handle = j.company_handle")>>

\* queryValues.push(v); whereExpressions.push(`<col><t>$${queryValues.length}`)
PushBoundMutant(st, col, t, v) ==
  [whereExpressions |-> Append(st.whereExpressions,
                          <<Frag(col, t, Len(st.queryValues))>>),
   queryValues |-> Append(st.queryValues, v)]

PushBoundInterpolated(st, col, t, v) ==
  IF v.type = "string"
  THEN [whereExpressions |-> Append(st.whereExpressions,
                               <<Frag(col, " ILIKE '" \o v.s \o "'", 0)>>),
        queryValues |-> st.queryValues]
  ELSE [whereExpressions |-> Append(st.whereExpressions,
                               <<Frag(col, t, Len(st.queryValues) + 1)>>),
        queryValues |-> Append(st.queryValues, v)]

PushBound(st, col, t, v) ==
  LET qv == Append(st.queryValues, v)
  IN [whereExpressions |-> Append(st.whereExpressions,
                             <<Frag(col, t, Len(qv))>>),
      queryValues |-> qv]

\* if (hasEquity === true) whereExpressions.push(`equity > 0`)
EquityFilterMutant(st, hasEquity) ==
  IF hasEquity.type = "boolean"
  THEN [whereExpressions |-> Append(st.whereExpressions,
                               <<Frag("equity", " > $",
                                      Len(st.queryValues) + 1)>>),
        queryValues |-> Append(st.queryValues, hasEquity)]
  ELSE st

EquityFilter(st, hasEquity) ==
  IF hasEquity = Bool(TRUE)
  THEN [st EXCEPT !.whereExpressions = Append(@, <<Frag("equity", " > 0", 0)>>)]
  ELSE st

\* if (whereExpressions.length > 0) baseQuery += " WHERE " + join(" AND ");
\* baseQuery += " ORDER BY <col>"
WhereClauseMutant(baseQuery, whereExprs, orderBy) ==
  baseQuery \o <<Text(" WHERE ")>> \o Join(whereExprs, " AND ")
            \o <<Text(" ORDER BY " \o orderBy)>>

WhereClause(baseQuery, whereExprs, orderBy) ==
  (IF Len(whereExprs) > 0
   THEN baseQuery \o <<Text(" WHERE ")>> \o Join(whereExprs, " AND ")
   ELSE baseQuery)
  \o <<Text(" ORDER BY " \o orderBy)>>

EmptyLocals == [whereExpressions |-> <<>>, queryValues |-> <<>>]

\* the locals of Job.findAll at the db.query call
JobFindAllLocals(f) ==
  LET s1 == IF f.title # Undefined
            THEN PushBound(EmptyLocals, "title", " ILIKE $", Wildcard(f.title))
            ELSE EmptyLocals
      s2 == IF f.minSalary # Undefined
            THEN PushBound(s1, "salary", " >= $", f.minSalary)
            ELSE s1
  IN EquityFilter(s2, f.hasEquity)

\* the statement and value list Job.findAll hands to db.query
JobFindAllQuery(f) ==
  LET st == JobFindAllLocals(f)
  IN [sql |-> WhereClause(JobBaseQuery, st.whereExpressions, "title"),
      values |-> st.queryValues]

-----------------------------------------------------------------------------
(* Company.findAll *)

CompanyBaseQuery ==
  <<Text("SELECT handle, name, description, num_employees AS \"numEmployees\", logo_url AS \"logoUrl\" FROM companies")>>

\* if (minEmployees > maxEmployees) throw new BadRequestError(...)
MinExceedsMaxMutant(minEmployees, maxEmployees) ==
  minEmployees.type = "number" /\ maxEmployees.type = "number"
    /\ minEmployees.n >= maxEmployees.n

MinExceedsMax(minEmployees, maxEmployees) ==
  JsGreater(minEmployees, maxEmployees)

\* the locals of Company.findAll when it throws or reaches db.query
CompanyFindAllLocals(f) ==
  LET s1 == IF Truthy(f.name)
            THEN PushBound(EmptyLocals, "name", " ILIKE $", Wildcard(f.name))
            ELSE EmptyLocals
      s2 == IF f.minEmployees # Undefined
            THEN PushBound(s1, "num_employees", " >= $", f.minEmployees)
            ELSE s1
      s3 == IF f.maxEmployees # Undefined
            THEN PushBound(s2, "num_employees", " <= $", f.maxEmployees)
            ELSE s2
  IN IF MinExceedsMax(f.minEmployees, f.maxEmployees)
     THEN [err |-> "BadRequestError",
           whereExpressions |-> s1.whereExpressions,
           queryValues |-> s1.queryValues]
     ELSE [err |-> "none",
           whereExpressions |-> s3.whereExpressions,
           queryValues |-> s3.queryValues]

CompanyFindAllQuery(st) ==
  [sql |-> WhereClause(CompanyBaseQuery, st.whereExpressions, "name"),
   values |-> st.queryValues]

-----------------------------------------------------------------------------
(* helpers/sql.js: sqlForPartialUpdate(dataToUpdate, jsToSql)              *)
(* dataToUpdate is a sequence of <<key, value>> pairs with distinct keys,  *)
(* in the object's insertion order; jsToSql is a function on the aliased   *)
(* keys.                                                                   *)

sqlForPartialUpdate(dataToUpdate, jsToSql) ==
  IF Len(dataToUpdate) = 0
  THEN [err |-> "BadRequestError", setCols |-> <<>>, values |-> <<>>]
  ELSE [err |-> "none",
        setCols |-> Join([i \in 1..Len(dataToUpdate) |->
                            <<Frag(IF dataToUpdate[i][1] \in DOMAIN jsToSql
                                   THEN jsToSql[dataToUpdate[i][1]]
                                   ELSE dataToUpdate[i][1],
                                   " = $", i)>>],
                         ", "),
        values |-> [i \in 1..Len(dataToUpdate) |-> dataToUpdate[i][2]]]

\* const idVarIdx = "$" + (values.length + 1)
VarIdx(values) == Len(values) + 1

\* querySql and the value list of Job.update
JobUpdateQuery(id, upd) ==
  [sql |-> <<Text("UPDATE jobs SET ")>> \o upd.setCols
           \o <<Text(" WHERE "), Frag("id", " = $", VarIdx(upd.values)),
                Text(" RETURNING id, title, salary, equity, company_handle AS \"companyHandle\"")>>,
   values |-> Append(upd.values, id)]

CompanyJsToSql ==
  [k \in {"numEmployees", "logoUrl"} |->
     IF k = "numEmployees" THEN "num_employees" ELSE "logo_url"]

\* querySql and the value list of Company.update
CompanyUpdateQuery(handle, upd) ==
  [sql |-> <<Text("UPDATE companies SET ")>> \o upd.setCols
           \o <<Text(" WHERE "), Frag("handle", " = $", VarIdx(upd.values)),
                Text(" RETURNING handle, name, description, num_employees AS \"numEmployees\", logo_url AS \"logoUrl\"")>>,
   values |-> Append(upd.values, handle)]

-----------------------------------------------------------------------------
(* The database: tables jobs and companies as db.query sees them.          *)
(* companies.handle and jobs.id are primary keys, jobs.id is a serial      *)
(* column, and jobs.company_handle references companies with ON DELETE     *)
(* CASCADE.                                                                *)

Handles == {"c1", "c2"}

JobColumns == {"id", "title", "salary", "equity", "company_handle"}
CompanyColumns == {"handle", "name", "description", "num_employees", "logo_url"}

ColType(col) ==
  IF col \in {"id", "salary", "equity", "num_employees"}
  THEN "number" ELSE "string"

\* row[col] = v, as SQL compares a column with a bound value
SqlEq(row, col, v) ==
  /\ v.type = ColType(col)
  /\ IF v.type = "number" THEN row[col] = v.n ELSE row[col] = v.s

\* RETURNING / SELECT lists with their AS aliases
JobRecord(r) ==
  [id |-> r.id, title |-> r.title, salary |-> r.salary, equity |-> r.equity,
   companyHandle |-> r.company_handle]

CompanyRecord(r) ==
  [handle |-> r.handle, name |-> r.name, description |-> r.description,
   numEmployees |-> r.num_employees, logoUrl |-> r.logo_url]

\* SELECT ... FROM <table> WHERE <pk> = $1
DbSelect(rows, pk, v) == {r \in rows : SqlEq(r, pk, v)}

\* the SET assignments and the WHERE fragment of an UPDATE statement
WherePos(sql) ==
  CHOOSE i \in 1..Len(sql) : sql[i].col = "" /\ sql[i].t = " WHERE "

SetFrags(sql) ==
  SelectSeq(SubSeq(sql, 2, WherePos(sql) - 1), LAMBDA f : f.col # "")

RECURSIVE Assign(_, _, _)
Assign(row, sets, values) ==
  IF Len(sets) = 0 THEN row
  ELSE LET v == values[sets[1].n]
       IN Assign([row EXCEPT ![sets[1].col] =
                    IF v.type = "number" THEN v.n ELSE v.s],
                 Tail(sets), values)

\* UPDATE <table> SET ... WHERE <pk> = $k RETURNING ...: the rows matched and
\* their new contents, or an error for an unknown column, a placeholder
\* without a value or a value of the wrong type
DbUpdate(rows, columns, q) ==
  LET sets == SetFrags(q.sql)
      keyFrag == q.sql[WherePos(q.sql) + 1]
      bad == \/ \E i \in 1..Len(sets) :
                  \/ sets[i].col \notin columns
                  \/ sets[i].n \notin 1..Len(q.values)
                  \/ /\ sets[i].n \in 1..Len(q.values)
                     /\ q.values[sets[i].n].type # ColType(sets[i].col)
             \/ keyFrag.n \notin 1..Len(q.values)
      matched == {r \in rows : SqlEq(r, keyFrag.col, q.values[keyFrag.n])}
  IN IF bad
     THEN [err |-> "DatabaseError", matched |-> {}, updated |-> {}]
     ELSE [err |-> "none", matched |-> matched,
           updated |-> {Assign(r, sets, q.values) : r \in matched}]

\* the primary key of a table is unique
UniqueKey(rows, pk) ==
  \A r1, r2 \in rows : r1[pk] = r2[pk] => r1 = r2

\* every job references a stored company
ForeignKey(jobRows, companyRows) ==
  \A j \in jobRows : \E c \in companyRows : c.handle = j.company_handle

NoResult == Undefined

NoFilters ==
  [title |-> Undefined, minSalary |-> Undefined, hasEquity |-> Undefined,
   name |-> Undefined, minEmployees |-> Undefined, maxEmployees |-> Undefined]

NoAliases == [k \in {} |-> ""]

Procs == {"p1", "p2"}

\* the argument slot of a Company.create call that is not in flight
NoData ==
  [handle |-> "", name |-> "", description |-> "", numEmployees |-> 0,
   logoUrl |-> ""]

-----------------------------------------------------------------------------
(* Inputs *)

NumericBounds == {Undefined} \cup {Num(n) : n \in 0..MaxEmployees}

JobFilters ==
  {[NoFilters EXCEPT !.title = t, !.minSalary = m, !.hasEquity = e] :
     t \in {Undefined, Str(""), Str("eng")}, m \in NumericBounds,
     e \in {Undefined, Bool(TRUE), Bool(FALSE)}}

CompanyFilters ==
  {[NoFilters EXCEPT !.name = t, !.minEmployees = lo, !.maxEmployees = hi] :
     t \in {Undefined, Str(""), Str("net")}, lo \in NumericBounds,
     hi \in NumericBounds}

\* object literals with at most k distinct keys, as <<key, value>> sequences
Mappings(pairs, k) ==
  {m \in UNION {[1..n -> pairs] : n \in 0..k} :
     \A i, j \in 1..Len(m) : m[i][1] = m[j][1] => i = j}

JobUpdatePairs ==
  {<<"title", Str("lead")>>, <<"salary", Num(2)>>,
   <<"companyHandle", Str("c2")>>}

\* the updates that address a job's key and company columns
JobKeyPairs ==
  {<<"title", Str("lead")>>, <<"companyHandle", Str("c2")>>,
   <<"company_handle", Str("c2")>>}
  \cup {<<"id", Num(i)>> : i \in 1..MaxJobId}

CompanyUpdatePairs ==
  {<<"name", Str("Bolt")>>, <<"numEmployees", Num(2)>>,
   <<"logoUrl", Str("a.png")>>}

JobCreateData ==
  {[title |-> "dev", salary |-> 1, equity |-> 0, companyHandle |-> h] :
     h \in Handles}

CompanyCreateData ==
  {[handle |-> h, name |-> "Acme", description |-> "d", numEmployees |-> 1,
    logoUrl |-> "a.png"] : h \in Handles}

-----------------------------------------------------------------------------
(* Operations *)

NoQuery ==
  /\ filters' = NoFilters
  /\ whereExpressions' = <<>>
  /\ queryValues' = <<>>

\* Job.findAll(searchFilters); the rows the database answers with are not
\* part of the state
JobFindAll(f) ==
  LET st == JobFindAllLocals(f)
  IN /\ call' = [op |-> "Job.findAll", err |-> "none"]
     /\ key' = Undefined
     /\ filters' = f
     /\ data' = <<>>
     /\ whereExpressions' = st.whereExpressions
     /\ queryValues' = st.queryValues
     /\ dbQuery' = <<JobFindAllQuery(f)>>
     /\ ret' = NoResult
     /\ UNCHANGED <<companies, jobs, nextId, pc, pending>>

\* Company.findAll(searchFilters)
CompanyFindAll(f) ==
  LET st == CompanyFindAllLocals(f)
  IN /\ call' = [op |-> "Company.findAll", err |-> st.err]
     /\ key' = Undefined
     /\ filters' = f
     /\ data' = <<>>
     /\ whereExpressions' = st.whereExpressions
     /\ queryValues' = st.queryValues
     /\ dbQuery' = IF st.err = "none" THEN <<CompanyFindAllQuery(st)>> ELSE <<>>
     /\ ret' = NoResult
     /\ UNCHANGED <<companies, jobs, nextId, pc, pending>>

\* Job.create(data)
JobCreate(d) ==
  LET row == [id |-> nextId, title |-> d.title, salary |-> d.salary,
              equity |-> d.equity, company_handle |-> d.companyHandle]
      ok == ForeignKey({row}, companies)
              /\ DbSelect(jobs, "id", Num(row.id)) = {}
  IN /\ nextId <= MaxJobId
     /\ nextId' = nextId + 1
     /\ jobs' = IF ok THEN jobs \cup {row} ELSE jobs
     /\ call' = [op |-> "Job.create",
                 err |-> IF ok THEN "none" ELSE "DatabaseError"]
     /\ key' = Undefined
     /\ data' = <<>>
     /\ dbQuery' = <<>>
     /\ ret' = IF ok THEN JobRecord(row) ELSE NoResult
     /\ NoQuery
     /\ UNCHANGED <<companies, pc, pending>>

\* Job.get(id); its two SELECTs read the same tables
JobGet(id) ==
  LET found == DbSelect(jobs, "id", id)
      job == CHOOSE r \in found : TRUE
      company == DbSelect(companies, "handle", Str(job.company_handle))
  IN /\ call' = [op |-> "Job.get",
                 err |-> IF found = {} THEN "NotFoundError" ELSE "none"]
     /\ key' = id
     /\ data' = <<>>
     /\ dbQuery' = <<>>
     /\ ret' = IF found = {} THEN NoResult
               ELSE [id |-> job.id, title |-> job.title, salary |-> job.salary,
                     equity |-> job.equity,
                     company |-> IF company = {} THEN Undefined
                                 ELSE CompanyRecord(CHOOSE c \in company : TRUE)]
     /\ NoQuery
     /\ UNCHANGED <<companies, jobs, nextId, pc, pending>>

\* Job.update(id, data)
JobUpdate(id, d) ==
  LET upd == sqlForPartialUpdate(d, NoAliases)
      q == JobUpdateQuery(id, upd)
      res == DbUpdate(jobs, JobColumns, q)
      new == (jobs \ res.matched) \cup res.updated
      ok == res.err = "none" /\ UniqueKey(new, "id")
              /\ Cardinality(new) = Cardinality(jobs)
              /\ ForeignKey(new, companies)
  IN /\ call' = [op |-> "Job.update",
                 err |-> IF upd.err # "none" THEN upd.err
                         ELSE IF ~ok THEN "DatabaseError"
                         ELSE IF res.updated = {} THEN "NotFoundError"
                         ELSE "none"]
     /\ key' = id
     /\ data' = d
     /\ dbQuery' = IF upd.err = "none" THEN <<q>> ELSE <<>>
     /\ jobs' = IF upd.err = "none" /\ ok THEN new ELSE jobs
     /\ ret' = IF upd.err = "none" /\ ok /\ res.updated # {}
               THEN JobRecord(CHOOSE r \in res.updated : TRUE) ELSE NoResult
     /\ NoQuery
     /\ UNCHANGED <<companies, nextId, pc, pending>>

\* Job.remove(id)
JobRemove(id) ==
  LET found == DbSelect(jobs, "id", id)
  IN /\ call' = [op |-> "Job.remove",
                 err |-> IF found = {} THEN "NotFoundError" ELSE "none"]
     /\ key' = id
     /\ data' = <<>>
     /\ dbQuery' = <<>>
     /\ jobs' = jobs \ found
     /\ ret' = NoResult
     /\ NoQuery
     /\ UNCHANGED <<companies, nextId, pc, pending>>

\* Company.create(data), up to the duplicate check
CompanyCreateCheck(p, d) ==
  LET duplicateCheck == DbSelect(companies, "handle", Str(d.handle))
  IN /\ pc[p] = "idle"
     /\ IF duplicateCheck # {}
        THEN /\ call' = [op |-> "Company.create", err |-> "BadRequestError"]
             /\ UNCHANGED <<pc, pending>>
        ELSE /\ call' = [op |-> "Company.create:duplicateCheck", err |-> "none"]
             /\ pc' = [pc EXCEPT ![p] = "insert"]
             /\ pending' = [pending EXCEPT ![p] = d]
     /\ key' = Str(d.handle)
     /\ data' = <<>>
     /\ dbQuery' = <<>>
     /\ ret' = NoResult
     /\ NoQuery
     /\ UNCHANGED <<companies, jobs, nextId>>

\* Company.create(data), the INSERT after the duplicate check
CompanyCreateInsert(p) ==
  LET d == pending[p]
      row == [handle |-> d.handle, name |-> d.name,
              description |-> d.description, num_employees |-> d.numEmployees,
              logo_url |-> d.logoUrl]
      ok == DbSelect(companies, "handle", Str(row.handle)) = {}
  IN /\ pc[p] = "insert"
     /\ pc' = [pc EXCEPT ![p] = "idle"]
     /\ pending' = [pending EXCEPT ![p] = NoData]
     /\ companies' = IF ok THEN companies \cup {row} ELSE companies
     /\ call' = [op |-> "Company.create",
                 err |-> IF ok THEN "none" ELSE "DatabaseError"]
     /\ key' = Str(d.handle)
     /\ data' = <<>>
     /\ dbQuery' = <<>>
     /\ ret' = IF ok THEN CompanyRecord(row) ELSE NoResult
     /\ NoQuery
     /\ UNCHANGED <<jobs, nextId>>

\* Company.get(handle)
CompanyGet(handle) ==
  LET companyRes == DbSelect(companies, "handle", handle)
  IN /\ call' = [op |-> "Company.get",
                 err |-> IF companyRes = {} THEN "NotFoundError" ELSE "none"]
     /\ key' = handle
     /\ data' = <<>>
     /\ dbQuery' = <<>>
     /\ ret' = IF companyRes = {} THEN NoResult
               ELSE CompanyRecord(CHOOSE c \in companyRes : TRUE)
     /\ NoQuery
     /\ UNCHANGED <<companies, jobs, nextId, pc, pending>>

\* Company.update(handle, data)
CompanyUpdate(handle, d) ==
  LET upd == sqlForPartialUpdate(d, CompanyJsToSql)
      q == CompanyUpdateQuery(handle, upd)
      res == DbUpdate(companies, CompanyColumns, q)
      new == (companies \ res.matched) \cup res.updated
      ok == res.err = "none" /\ UniqueKey(new, "handle")
              /\ Cardinality(new) = Cardinality(companies)
              /\ ForeignKey(jobs, new)
  IN /\ call' = [op |-> "Company.update",
                 err |-> IF upd.err # "none" THEN upd.err
                         ELSE IF ~ok THEN "DatabaseError"
                         ELSE IF res.updated = {} THEN "NotFoundError"
                         ELSE "none"]
     /\ key' = handle
     /\ data' = d
     /\ dbQuery' = IF upd.err = "none" THEN <<q>> ELSE <<>>
     /\ companies' = IF upd.err = "none" /\ ok THEN new ELSE companies
     /\ ret' = IF upd.err = "none" /\ ok /\ res.updated # {}
               THEN CompanyRecord(CHOOSE r \in res.updated : TRUE) ELSE NoResult
     /\ NoQuery
     /\ UNCHANGED <<jobs, nextId, pc, pending>>

\* Company.remove(handle)
CompanyRemove(handle) ==
  LET found == DbSelect(companies, "handle", handle)
  IN /\ call' = [op |-> "Company.remove",
                 err |-> IF found = {} THEN "NotFoundError" ELSE "none"]
     /\ key' = handle
     /\ data' = <<>>
     /\ dbQuery' = <<>>
     /\ companies' = companies \ found
     /\ jobs' = {j \in jobs : \A c \in found : j.company_handle # c.handle}
     /\ ret' = NoResult
     /\ NoQuery
     /\ UNCHANGED <<nextId, pc, pending>>

-----------------------------------------------------------------------------
(* Specifications *)

JobIds == {Num(i) : i \in 1..MaxJobId}
HandleArgs == {Str(h) : h \in Handles}

InitCall ==
  /\ pc = [p \in Procs |-> "idle"]
  /\ pending = [p \in Procs |-> NoData]
  /\ call = [op |-> "none", err |-> "none"]
  /\ key = Undefined
  /\ filters = NoFilters
  /\ data = <<>>
  /\ whereExpressions = <<>>
  /\ queryValues = <<>>
  /\ dbQuery = <<>>
  /\ ret = NoResult

\* the CRUD operations on empty tables, one call at a time
Init ==
  /\ companies = {}
  /\ jobs = {}
  /\ nextId = 1
  /\ InitCall

Next ==
  \/ \E d \in JobCreateData : JobCreate(d)
  \/ \E id \in JobIds : JobGet(id)
  \/ \E id \in JobIds, d \in Mappings(JobKeyPairs, 1) : JobUpdate(id, d)
  \/ \E id \in JobIds : JobRemove(id)
  \/ \E d \in CompanyCreateData : CompanyCreateCheck("p1", d)
  \/ CompanyCreateInsert("p1")
  \/ \E h \in HandleArgs : CompanyGet(h)
  \/ \E h \in HandleArgs, d \in Mappings({<<"name", Str("Bolt")>>}, 1) :
       CompanyUpdate(h, d)
  \/ \E h \in HandleArgs : CompanyRemove(h)

Spec == Init /\ [][Next]_vars

\* concurrent Company.create calls, with get and remove
NextCreate ==
  \/ \E p \in Procs, d \in CompanyCreateData : CompanyCreateCheck(p, d)
  \/ \E p \in Procs : CompanyCreateInsert(p)
  \/ \E h \in HandleArgs : CompanyGet(h)
  \/ \E h \in HandleArgs : CompanyRemove(h)

SpecCreate == Init /\ [][NextCreate]_vars

\* statement composition: findAll and update over one company and one job
InitFilter ==
  /\ companies = {[handle |-> "c1", name |-> "Acme", description |-> "d",
                   num_employees |-> 1, logo_url |-> "a.png"]}
  /\ jobs = {[id |-> 1, title |-> "dev", salary |-> 1, equity |-> 0,
              company_handle |-> "c1"]}
  /\ nextId = 2
  /\ InitCall

NextFilter ==
  \/ \E f \in JobFilters : JobFindAll(f)
  \/ \E f \in CompanyFilters : CompanyFindAll(f)
  \/ \E id \in JobIds, d \in Mappings(JobUpdatePairs, MaxKeys) :
       JobUpdate(id, d)
  \/ \E h \in HandleArgs, d \in Mappings(CompanyUpdatePairs, MaxKeys) :
       CompanyUpdate(h, d)

SpecFilter == InitFilter /\ [][NextFilter]_vars

-----------------------------------------------------------------------------
(* Properties of the composed statements (SpecFilter) *)

\* the predicate texts of a statement without their placeholder numbers
PredicateTexts(sql) ==
  LET cs == SelectSeq(sql, LAMBDA f : f.col # "")
  IN [i \in 1..Len(cs) |-> cs[i].col \o cs[i].t]

JobPredicateOrder == <<"title ILIKE $", "salary >= $", "equity > 0">>

CompanyPredicateOrder ==
  <<"name ILIKE $", "num_employees >= $", "num_employees <= $">>

FindAllSent == call.op \in {"Job.findAll", "Company.findAll"} /\ Len(dbQuery) = 1

\* C1: in every (statement, values) pair that Job.findAll, Company.findAll,
\* Job.update and Company.update hand to db.query, the placeholders of the
\* statement read in text order are exactly $1, $2, ..., $k with k the length
\* of the value list; the predicates of findAll follow the fixed predicate
\* order, and in an update the row key is bound last, as $k.
C1_PlaceholdersMatchValues ==
  \A i \in 1..Len(dbQuery) :
    LET q == dbQuery[i]
    IN /\ Placeholders(q.sql) = OneToN(Len(q.values))
       /\ call.op = "Job.findAll" =>
            IsSubseq(PredicateTexts(q.sql), JobPredicateOrder)
       /\ call.op = "Company.findAll" =>
            IsSubseq(PredicateTexts(q.sql), CompanyPredicateOrder)
       /\ call.op \in {"Job.update", "Company.update"} =>
            /\ Len(q.values) = Len(data) + 1
            /\ q.sql[WherePos(q.sql) + 1].n = Len(q.values)
            /\ q.values[Len(q.values)] = key
            /\ \A j \in 1..Len(data) : q.values[j] = data[j][2]

C1_Witness ==
  \/ /\ call.op = "Company.findAll"
     /\ Len(dbQuery) = 1
     /\ Len(dbQuery[1].values) = 3
  \/ /\ call.op = "Job.update"
     /\ Len(dbQuery) = 1
     /\ Len(dbQuery[1].values) = 3

\* C2: the statement of Job.findAll / Company.findAll has a WHERE clause iff
\* at least one predicate was appended.  With every criterion absent the
\* statement is the base statement followed only by ORDER BY and the value
\* list is empty; with k > 0 predicates it is base, " WHERE ", the predicates
\* separated by exactly k - 1 " AND ", then ORDER BY.
C2_WhereIffPredicates ==
  FindAllSent =>
    LET sql == dbQuery[1].sql
        base == IF call.op = "Job.findAll" THEN JobBaseQuery
                ELSE CompanyBaseQuery
        order == IF call.op = "Job.findAll" THEN Text(" ORDER BY title")
                 ELSE Text(" ORDER BY name")
        k == Len(whereExpressions)
        b == Len(base)
    IN /\ (\E i \in 1..Len(sql) : sql[i] = Text(" WHERE ")) <=> k > 0
       /\ filters = NoFilters => k = 0
       /\ k = 0 => sql = base \o <<order>> /\ dbQuery[1].values = <<>>
       /\ k > 0 =>
            /\ Len(sql) = b + 2 * k + 1
            /\ SubSeq(sql, 1, b) = base
            /\ sql[b + 1] = Text(" WHERE ")
            /\ \A j \in 1..k : sql[b + 2 * j] = whereExpressions[j][1]
                                 /\ sql[b + 2 * j].col # ""
            /\ \A j \in 1..(k - 1) : sql[b + 2 * j + 1] = Text(" AND ")
            /\ sql[Len(sql)] = order

C2_Witness ==
  /\ call.op = "Job.findAll"
  /\ Len(dbQuery) = 1
  /\ Len(whereExpressions) = 3

\* C3: Company.findAll fails with BadRequestError exactly when minEmployees
\* and maxEmployees are both supplied and minEmployees > maxEmployees, and
\* then nothing is handed to db.query; otherwise one statement is.
C3_BadRequestIffMinGreater ==
  call.op = "Company.findAll" =>
    /\ call.err = "BadRequestError" <=>
         /\ filters.minEmployees.type = "number"
         /\ filters.maxEmployees.type = "number"
         /\ filters.minEmployees.n > filters.maxEmployees.n
    /\ call.err = "BadRequestError" => dbQuery = <<>>
    /\ call.err # "BadRequestError" => call.err = "none" /\ Len(dbQuery) = 1

C3_Witness ==
  /\ call.op = "Company.findAll"
  /\ call.err = "BadRequestError"
  /\ filters.minEmployees = Num(1)
  /\ filters.maxEmployees = Num(0)

\* C4: whenever Company.findAll ends in BadRequestError, its predicate list
\* and its value list are still empty when the error is raised.
C4_Claim ==
  (call.op = "Company.findAll" /\ call.err = "BadRequestError") =>
    whereExpressions = <<>> /\ queryValues = <<>>

\* one predicate col ++ t bound to value v when the criterion is supplied,
\* none when it is absent
Contributes(q, supplied, col, t, v) ==
  LET idx == {i \in 1..Len(q.sql) : q.sql[i].col = col /\ q.sql[i].t = t}
  IN IF supplied
     THEN /\ Cardinality(idx) = 1
          /\ \A i \in idx : /\ q.sql[i].n \in 1..Len(q.values)
                            /\ q.values[q.sql[i].n] = v
     ELSE idx = {}

Supplied(vs) == Cardinality({i \in 1..Len(vs) : vs[i] # Undefined})

\* C5: in Job.findAll and Company.findAll every text or numeric criterion
\* other than undefined (the empty string and 0 included) contributes exactly
\* one predicate and one bound value (text as %value%, numbers raw), and
\* every absent one contributes neither.
C5_Claim ==
  FindAllSent =>
    LET q == dbQuery[1]
        f == filters
    IN IF call.op = "Job.findAll"
       THEN /\ Contributes(q, f.title # Undefined, "title", " ILIKE $",
                           Wildcard(f.title))
            /\ Contributes(q, f.minSalary # Undefined, "salary", " >= $",
                           f.minSalary)
            /\ Len(q.values) = Supplied(<<f.title, f.minSalary>>)
       ELSE /\ Contributes(q, f.name # Undefined, "name", " ILIKE $",
                           Wildcard(f.name))
            /\ Contributes(q, f.minEmployees # Undefined, "num_employees",
                           " >= $", f.minEmployees)
            /\ Contributes(q, f.maxEmployees # Undefined, "num_employees",
                           " <= $", f.maxEmployees)
            /\ Len(q.values) =
                 Supplied(<<f.name, f.minEmployees, f.maxEmployees>>)

\* C6: in Job.findAll hasEquity = true appends the fixed predicate
\* `equity > 0`, hasEquity absent or false appends none; the value list and
\* the placeholder numbers are those of the same call without hasEquity, so
\* the flag is never a bound value.
C6_EquityNeverBound ==
  (call.op = "Job.findAll" /\ Len(dbQuery) = 1) =>
    LET q == dbQuery[1]
        eq == {i \in 1..Len(q.sql) : q.sql[i].col = "equity"}
        without == JobFindAllQuery([filters EXCEPT !.hasEquity = Undefined])
    IN /\ IF filters.hasEquity = Bool(TRUE)
          THEN /\ Cardinality(eq) = 1
               /\ \A i \in eq : q.sql[i] = Frag("equity", " > 0", 0)
          ELSE eq = {}
       /\ \A i \in 1..Len(q.values) : q.values[i].type # "boolean"
       /\ q.values = without.values
       /\ Placeholders(q.sql) = Placeholders(without.sql)
       /\ Len(q.values) = Supplied(<<filters.title, filters.minSalary>>)

C6_Witness ==
  /\ call.op = "Job.findAll"
  /\ Len(dbQuery) = 1
  /\ filters.hasEquity = Bool(TRUE)
  /\ filters.minSalary = Num(1)
  /\ filters.title = Str("eng")

-----------------------------------------------------------------------------
(* Properties of the stored rows (Spec, SpecCreate) *)

\* the id and the company of every stored job
JobIdentities(rows) == {<<j.id, j.company_handle>> : j \in rows}

\* C7: Job.update never changes the id of a job nor the company associated
\* with a job, whatever the update mapping contains: a Job.update step leaves
\* the (id, company handle) pair of every stored job as it was.
C7_Claim ==
  [][call'.op = "Job.update" => JobIdentities(jobs') = JobIdentities(jobs)]_vars

\* C8: under any interleaving of Company.create calls the table holds at most
\* one company per handle, and every create that did not insert reported
\* BadRequestError.
C8_Claim ==
  /\ UniqueKey(companies, "handle")
  /\ call.op = "Company.create" => call.err \in {"none", "BadRequestError"}

\* C9: Company.get of an existing company returns { handle, name,
\* description, numEmployees, logoUrl, jobs }, jobs being all the jobs whose
\* company handle is that company's handle.
C9_Claim ==
  (call.op = "Company.get" /\ call.err = "none") =>
    /\ DOMAIN ret = {"handle", "name", "description", "numEmployees",
                     "logoUrl", "jobs"}
    /\ ret.jobs = {JobRecord(j) : j \in {r \in jobs : r.company_handle = key.s}}

\* C10: get and remove throw NotFoundError exactly when no row has the given
\* key, a call that throws NotFoundError leaves the rows unchanged, and a key
\* without a row stays without one (so get, update and remove keep throwing
\* NotFoundError) until a row with that key is created.
C10_Claim ==
  [][/\ call'.op \in {"Job.get", "Job.remove"} =>
          (call'.err = "NotFoundError" <=> DbSelect(jobs, "id", key') = {})
     /\ call'.op \in {"Company.get", "Company.remove"} =>
          (call'.err = "NotFoundError"
             <=> DbSelect(companies, "handle", key') = {})
     /\ call'.err = "NotFoundError" => jobs' = jobs /\ companies' = companies
     /\ \A id \in JobIds :
          (DbSelect(jobs, "id", id) = {} /\ DbSelect(jobs', "id", id) # {})
            => call'.op = "Job.create"
     /\ \A h \in HandleArgs :
          (DbSelect(companies, "handle", h) = {}
             /\ DbSelect(companies', "handle", h) # {})
            => call'.op = "Company.create"]_vars

-----------------------------------------------------------------------------
(* Statement text and caller-supplied values (SpecFilter) *)

\* the fragments a findAll statement with k bound values may consist of
JobStatementFragments(k) ==
  {JobBaseQuery[i] : i \in 1..Len(JobBaseQuery)}
  \cup {Text(" WHERE "), Text(" AND "), Text(" ORDER BY title"),
        Frag("equity", " > 0", 0)}
  \cup {Frag("title", " ILIKE $", n) : n \in 1..k}
  \cup {Frag("salary", " >= $", n) : n \in 1..k}

CompanyStatementFragments(k) ==
  {CompanyBaseQuery[i] : i \in 1..Len(CompanyBaseQuery)}
  \cup {Text(" WHERE "), Text(" AND "), Text(" ORDER BY name")}
  \cup {Frag("name", " ILIKE $", n) : n \in 1..k}
  \cup {Frag("num_employees", " >= $", n) : n \in 1..k}
  \cup {Frag("num_employees", " <= $", n) : n \in 1..k}

\* C11: the statement Job.findAll / Company.findAll hands to db.query consists
\* only of the base statement, the fixed predicate fragments with positional
\* placeholders, " WHERE ", " AND " and the ORDER BY clause, none of which
\* depends on a criterion value; every element of the value list is a supplied
\* text value wrapped in % or a supplied numeric bound, and every predicate
\* with a placeholder is bound to the value of its own criterion.
C11_ValuesOnlyInValueList ==
  FindAllSent =>
    LET q == dbQuery[1]
        k == Len(q.values)
        f == filters
        allowed == IF call.op = "Job.findAll" THEN JobStatementFragments(k)
                   ELSE CompanyStatementFragments(k)
        wrapped(v) == IF v = Undefined THEN {} ELSE {Wildcard(v)}
        bound(col, t) ==
          {q.values[q.sql[i].n] :
             i \in {j \in 1..Len(q.sql) : q.sql[j].col = col /\ q.sql[j].t = t}}
    IN /\ \A i \in 1..Len(q.sql) : q.sql[i] \in allowed
       /\ IF call.op = "Job.findAll"
          THEN /\ bound("title", " ILIKE $") \subseteq {Wildcard(f.title)}
               /\ bound("salary", " >= $") \subseteq {f.minSalary}
               /\ \A i \in 1..k : q.values[i] \in
                    wrapped(f.title) \cup ({f.minSalary} \ {Undefined})
          ELSE /\ bound("name", " ILIKE $") \subseteq {Wildcard(f.name)}
               /\ bound("num_employees", " >= $") \subseteq {f.minEmployees}
               /\ bound("num_employees", " <= $") \subseteq {f.maxEmployees}
               /\ \A i \in 1..k : q.values[i] \in
                    wrapped(f.name)
                      \cup ({f.minEmployees, f.maxEmployees} \ {Undefined})

C11_Witness ==
  /\ call.op = "Company.findAll"
  /\ Len(dbQuery) = 1
  /\ filters.name = Str("net")
  /\ filters.minEmployees = Num(0)
  /\ filters.maxEmployees = Num(2)

====
